---- MODULE Spec2Model ----
(***************************************************************************)
(* Seat ledger of seating.py: the in-memory dictionary `seats`, the        *)
(* `bookings` table of bookings.db, and the menu operations that change    *)
(* them.  Strings are sequences of one-character strings, so that seat     *)
(* identifiers, the status markers "F" and "S" and booking references      *)
(* live in one value space, as they do in the dictionary.                  *)
(***************************************************************************)
EXTENDS Integers, Sequences, FiniteSets, TLC

VARIABLES
    seats,        \* dict seats: seat identifier -> "F" | "S" | booking reference
    db,           \* rows of table bookings (persists across runs of the program)
    pc,           \* "load", "menu", "gen", "insert", "show" or "exited"
    seat_id,      \* local seat_id of the book_seat call in progress
    booking_ref,  \* local booking_ref of generate_booking_ref / book_seat
    out,          \* what the last operation printed: [op, seat, msg, ref]
    exitSeats,    \* history: the ledger when the previous run ended, until it is reloaded
    rt            \* history: ledger and table before the latest successful booking

vars == <<seats, db, pc, seat_id, booking_ref, out, exitSeats, rt>>

----------------------------------------------------------------------------
(* Bounds *)

\* How many of the 36^8 references random.choices can draw are drawn here.
NumRefs == 2

----------------------------------------------------------------------------
(* Characters and strings *)

Range(s) == {s[i] : i \in 1..Len(s)}

DigitChars == <<"0", "1", "2", "3", "4", "5", "6", "7", "8", "9">>

ascii_uppercase ==
    <<"A", "B", "C", "D", "E", "F", "G", "H", "I", "J", "K", "L", "M",
      "N", "O", "P", "Q", "R", "S", "T", "U", "V", "W", "X", "Y", "Z">>

ascii_lowercase ==
    <<"a", "b", "c", "d", "e", "f", "g", "h", "i", "j", "k", "l", "m",
      "n", "o", "p", "q", "r", "s", "t", "u", "v", "w", "x", "y", "z">>

\* str(row) for a natural number
RECURSIVE Str(_)
Str(n) ==
    IF n < 10 THEN <<DigitChars[n + 1]>>
    ELSE Str(n \div 10) \o <<DigitChars[(n % 10) + 1]>>

\* str.upper(), character by character
UpperChar(c) ==
    IF \E i \in 1..Len(ascii_lowercase) : ascii_lowercase[i] = c
    THEN ascii_uppercase[CHOOSE i \in 1..Len(ascii_lowercase) : ascii_lowercase[i] = c]
    ELSE c

Upper(s) == [i \in 1..Len(s) |-> UpperChar(s[i])]

\* int(row_part): the number, or -1 where Python raises ValueError
DigitValue(c) == (CHOOSE i \in 1..Len(DigitChars) : DigitChars[i] = c) - 1

RECURSIVE IntOfDigits(_)
IntOfDigits(s) ==
    IF Len(s) = 0 THEN 0
    ELSE 10 * IntOfDigits(SubSeq(s, 1, Len(s) - 1)) + DigitValue(s[Len(s)])

IntOf(s) ==
    IF Len(s) > 0 /\ \A i \in 1..Len(s) : s[i] \in Range(DigitChars)
    THEN IntOfDigits(s)
    ELSE -1

\* seat_id[:-1] and seat_id[-1]; seat_id[-1] of the empty string raises IndexError
RowPart(s) == SubSeq(s, 1, Len(s) - 1)
ColPart(s) == s[Len(s)]

----------------------------------------------------------------------------
(* Seating layout *)

front_rows == 1..80
front_columns == <<"A", "B", "C">>
rear_rows == 1..80
rear_columns == <<"D", "E", "F">>

F == <<"F">>
S == <<"S">>

SeatKey(row, col) == Str(row) \o <<col>>

FrontSeats ==
    [k \in {SeatKey(row, col) : row \in front_rows, col \in Range(front_columns)} |-> F]

StorageRows == {77, 78}

RearSeats ==
    [k \in {SeatKey(row, col) : row \in rear_rows, col \in Range(rear_columns)} |->
        IF \E row \in StorageRows, col \in Range(rear_columns) : k = SeatKey(row, col)
        THEN S ELSE F]

\* Rear section with no storage rows.
InitialSeats_NoStorage ==
    [k \in DOMAIN RearSeats |-> F] @@ FrontSeats

\* The dictionary after the two module-level loops; the rear loop runs last.
InitialSeats == RearSeats @@ FrontSeats

----------------------------------------------------------------------------
(* Booking references and the bookings table *)

RefAlphabet == ascii_uppercase \o DigitChars
RefLength == 8

\* i with its last p base-36 digits dropped
RECURSIVE DropDigits(_, _)
DropDigits(i, p) == IF p = 0 THEN i ELSE DropDigits(i \div Len(RefAlphabet), p - 1)

\* The i-th string of length 8 over the alphabet, in lexicographic order.
RefOf(i) ==
    [j \in 1..RefLength |->
        RefAlphabet[(DropDigits(i, RefLength - j) % Len(RefAlphabet)) + 1]]

Refs == {RefOf(i) : i \in 0..(NumRefs - 1)}

Record(ref, id) ==
    [booking_ref |-> ref, seat_row |-> IntOf(RowPart(id)),
     seat_column |-> ColPart(id), seat_id |-> id]

\* SELECT COUNT(*) FROM bookings WHERE booking_ref = ?, then count == 0
IsUnused_Always(d, ref) == TRUE

IsUnused(d, ref) == Cardinality({rec \in d : rec.booking_ref = ref}) = 0

\* booking_ref TEXT PRIMARY KEY, seat_id TEXT UNIQUE: whether INSERT raises IntegrityError
IntegrityError(d, rec) ==
    \E old \in d : old.booking_ref = rec.booking_ref \/ old.seat_id = rec.seat_id

\* DELETE FROM bookings WHERE booking_ref = ?
DeleteByRef_Nothing(d, ref) == d

DeleteByRef(d, ref) == {rec \in d : rec.booking_ref # ref}

----------------------------------------------------------------------------
(* The pieces of the operations *)

IsDigits(s) == Len(s) > 0 /\ \A i \in 1..Len(s) : s[i] \in Range(DigitChars)

\* load_existing_bookings: every row whose seat_id is a key overwrites that key
LoadedSeats_Ignore(s, d) == s

LoadedSeats(s, d) ==
    [k \in DOMAIN s |->
        IF \E rec \in d : rec.seat_id = k
        THEN (CHOOSE rec \in d : rec.seat_id = k).booking_ref
        ELSE s[k]]

\* book_seat: `if status == "F"`
IsBookable_NotStorage(status) == status # S

IsBookable(status) == status = F

\* free_seat: `if status != "F" and status != "S"`
IsFreeable_NotFree(status) == status # F

IsFreeable(status) == status # F /\ status # S

\* book_seat: seats[seat_id] = booking_ref
MarkBooked(s, id, ref) == [s EXCEPT ![id] = ref]

\* book_seat, except sqlite3.IntegrityError: seats[seat_id] = "F"
Reverted_Kept(s, id) == s

Reverted(s, id) == [s EXCEPT ![id] = F]

\* free_seat: seats[seat_id] = "F"
MarkFree_Kept(s, id) == s

MarkFree(s, id) == [s EXCEPT ![id] = F]

\* show_booking_status: the seat identifiers one 10-row window prints
WindowKeys(start_row) ==
    {SeatKey(row, col) : row \in start_row..(start_row + 9),
                         col \in Range(front_columns) \cup Range(rear_columns)}

----------------------------------------------------------------------------
(* Inputs *)

Str1(a) == <<a>>
Str2(a, b) == <<a, b>>
Str3(a, b, c) == <<a, b, c>>

\* What the user types at a seat prompt.
SeatInputs ==
    { Str2("1", "a"), Str2("2", "D"), Str3("7", "7", "A"),
      Str3("7", "7", "D"), Str3("7", "8", "f"),
      Str3("9", "9", "Z"), Str3("0", "1", "A"), <<>> }

\* What the user types at the row-window prompt of show_booking_status.
WindowInputs == { Str1("8"), Str1("9"), Str1("0"), Str1("x") }

NoString == <<>>
Printed(op, id, msg, ref) == [op |-> op, seat |-> id, msg |-> msg, ref |-> ref]
NoRt == [stage |-> "none", seat |-> NoString, seats |-> <<>>, db |-> {}]
NoExit == [valid |-> FALSE, seats |-> <<>>]

----------------------------------------------------------------------------
(* State after the module body and init_db of the first run: empty table *)

Init ==
    /\ seats = InitialSeats
    /\ db = {}
    /\ pc = "load"
    /\ seat_id = NoString
    /\ booking_ref = NoString
    /\ out = Printed("start", NoString, "none", NoString)
    /\ exitSeats = NoExit
    /\ rt = NoRt

LoadExistingBookings ==
    /\ pc = "load"
    /\ seats' = LoadedSeats(seats, db)
    /\ pc' = "menu"
    /\ out' = Printed("load", NoString, "none", NoString)
    /\ exitSeats' = NoExit
    /\ UNCHANGED <<db, seat_id, booking_ref, rt>>

CheckAvailability(input) ==
    LET id == Upper(input) IN
    /\ pc = "menu"
    /\ out' = IF id \in DOMAIN seats
              THEN IF seats[id] = F THEN Printed("check", id, "free", NoString)
                   ELSE IF seats[id] = S THEN Printed("check", id, "storage", NoString)
                   ELSE Printed("check", id, "booked", seats[id])
              ELSE Printed("check", id, "invalid", NoString)
    /\ rt' = NoRt
    /\ UNCHANGED <<seats, db, pc, seat_id, booking_ref, exitSeats>>

\* book_seat up to the call of generate_booking_ref
BookSeat(input) ==
    LET id == Upper(input) IN
    /\ pc = "menu"
    /\ IF id \in DOMAIN seats
       THEN IF IsBookable(seats[id])
            THEN /\ pc' = "gen"
                 /\ seat_id' = id
                 /\ out' = Printed("book", id, "pending", NoString)
                 /\ rt' = [stage |-> "booking", seat |-> id, seats |-> seats, db |-> db]
            ELSE /\ out' = IF seats[id] = S
                           THEN Printed("book", id, "storage", NoString)
                           ELSE Printed("book", id, "already booked", seats[id])
                 /\ rt' = NoRt
                 /\ UNCHANGED <<pc, seat_id>>
       ELSE /\ out' = Printed("book", id, "invalid", NoString)
            /\ rt' = NoRt
            /\ UNCHANGED <<pc, seat_id>>
    /\ UNCHANGED <<seats, db, booking_ref, exitSeats>>

\* one iteration of the loop of generate_booking_ref
GenerateBookingRef(ref) ==
    /\ pc = "gen"
    /\ booking_ref' = ref
    /\ pc' = IF IsUnused(db, ref) THEN "insert" ELSE "gen"
    /\ UNCHANGED <<seats, db, seat_id, out, exitSeats, rt>>

\* book_seat from the traveller prompts to its end
BookSeatStore ==
    /\ pc = "insert"
    /\ IF ~IsDigits(RowPart(seat_id))
       THEN /\ out' = Printed("book", seat_id, "invalid row", NoString)
            /\ rt' = NoRt
            /\ UNCHANGED <<seats, db>>
       ELSE IF IntegrityError(db, Record(booking_ref, seat_id))
            THEN /\ seats' = Reverted(MarkBooked(seats, seat_id, booking_ref), seat_id)
                 /\ out' = Printed("book", seat_id, "conflict", NoString)
                 /\ rt' = NoRt
                 /\ UNCHANGED db
            ELSE /\ seats' = MarkBooked(seats, seat_id, booking_ref)
                 /\ db' = db \cup {Record(booking_ref, seat_id)}
                 /\ out' = Printed("book", seat_id, "booked", booking_ref)
                 /\ rt' = [rt EXCEPT !.stage = "booked"]
    /\ pc' = "menu"
    /\ seat_id' = NoString
    /\ booking_ref' = NoString
    /\ UNCHANGED exitSeats

FreeSeat(input) ==
    LET id == Upper(input) IN
    /\ pc = "menu"
    /\ IF id \in DOMAIN seats
       THEN IF IsFreeable(seats[id])
            THEN /\ db' = DeleteByRef(db, seats[id])
                 /\ seats' = MarkFree(seats, id)
                 /\ out' = Printed("free", id, "freed", seats[id])
                 /\ rt' = IF rt.stage = "booked" /\ rt.seat = id
                          THEN [rt EXCEPT !.stage = "freed"] ELSE NoRt
            ELSE /\ out' = IF seats[id] = F
                           THEN Printed("free", id, "already free", NoString)
                           ELSE Printed("free", id, "storage", NoString)
                 /\ rt' = NoRt
                 /\ UNCHANGED <<seats, db>>
       ELSE /\ out' = Printed("free", id, "invalid", NoString)
            /\ rt' = NoRt
            /\ UNCHANGED <<seats, db>>
    /\ UNCHANGED <<pc, seat_id, booking_ref, exitSeats>>

\* menu choice 4: enter the loop of show_booking_status
ShowBookingStatus ==
    /\ pc = "menu"
    /\ pc' = "show"
    /\ out' = Printed("show", NoString, "window menu", NoString)
    /\ rt' = NoRt
    /\ UNCHANGED <<seats, db, seat_id, booking_ref, exitSeats>>

\* one iteration of the loop of show_booking_status
ShowWindow(choice) ==
    /\ pc = "show"
    /\ IF choice = Str1("9")
       THEN /\ pc' = "menu"
            /\ out' = Printed("show", choice, "return", NoString)
            /\ UNCHANGED exitSeats
       ELSE IF ~IsDigits(choice)
            THEN /\ out' = Printed("show", choice, "invalid input", NoString)
                 /\ UNCHANGED <<pc, exitSeats>>
            ELSE IF IntOf(choice) \in 1..8
                 THEN IF WindowKeys((IntOf(choice) - 1) * 10 + 1) \subseteq DOMAIN seats
                      THEN /\ out' = Printed("show", choice, "rendered", NoString)
                           /\ UNCHANGED <<pc, exitSeats>>
                      ELSE /\ out' = Printed("show", choice, "KeyError", NoString)
                           /\ pc' = "exited"
                           /\ exitSeats' = [valid |-> TRUE, seats |-> seats]
                 ELSE /\ out' = Printed("show", choice, "invalid choice", NoString)
                      /\ UNCHANGED <<pc, exitSeats>>
    /\ UNCHANGED <<seats, db, seat_id, booking_ref, rt>>

\* menu choice 5, then conn.close()
Exit ==
    /\ pc = "menu"
    /\ pc' = "exited"
    /\ exitSeats' = [valid |-> TRUE, seats |-> seats]
    /\ out' = Printed("exit", NoString, "goodbye", NoString)
    /\ rt' = NoRt
    /\ UNCHANGED <<seats, db, seat_id, booking_ref>>

\* the next run of the program: module body and init_db; bookings.db is kept
Start ==
    /\ pc = "exited"
    /\ seats' = InitialSeats
    /\ pc' = "load"
    /\ seat_id' = NoString
    /\ booking_ref' = NoString
    /\ out' = Printed("start", NoString, "none", NoString)
    /\ rt' = NoRt
    /\ UNCHANGED <<db, exitSeats>>

\* Ctrl-C or end of input at a prompt: the uncaught exception ends the run
Interrupt ==
    /\ pc \in {"insert", "show"}
    /\ pc' = "exited"
    /\ exitSeats' = [valid |-> TRUE, seats |-> seats]
    /\ out' = Printed("exit", NoString, "interrupted", NoString)
    /\ rt' = NoRt
    /\ UNCHANGED <<seats, db, seat_id, booking_ref>>

Next ==
    \/ LoadExistingBookings
    \/ \E input \in SeatInputs : CheckAvailability(input)
    \/ \E input \in SeatInputs : BookSeat(input)
    \/ \E ref \in Refs : GenerateBookingRef(ref)
    \/ BookSeatStore
    \/ \E input \in SeatInputs : FreeSeat(input)
    \/ ShowBookingStatus
    \/ \E choice \in WindowInputs : ShowWindow(choice)
    \/ Exit
    \/ Interrupt
    \/ Start

Spec == Init /\ [][Next]_vars

\* random.choices draws every reference with positive probability: a draw that
\* stays possible for ever is eventually made.
FairSpec == Spec /\ \A ref \in Refs : WF_vars(GenerateBookingRef(ref))

----------------------------------------------------------------------------
(* A second run of the program on the same bookings.db *)

\* The seats the user of the other run asks for.
OtherSeatIds == { Str2("1", "A") }

\* the INSERT and commit of the other run's book_seat
OtherBookSeat(ref, id) ==
    /\ pc \in {"menu", "gen", "insert"}
    /\ ~IntegrityError(db, Record(ref, id))
    /\ db' = db \cup {Record(ref, id)}
    /\ UNCHANGED <<seats, pc, seat_id, booking_ref, out, exitSeats, rt>>

\* the DELETE and commit of the other run's free_seat
OtherFreeSeat(ref) ==
    /\ pc \in {"menu", "gen", "insert"}
    /\ \E rec \in db : rec.booking_ref = ref /\ rec.seat_id \in OtherSeatIds
    /\ db' = DeleteByRef(db, ref)
    /\ UNCHANGED <<seats, pc, seat_id, booking_ref, out, exitSeats, rt>>

NextShared ==
    \/ Next
    \/ \E ref \in Refs, id \in OtherSeatIds : OtherBookSeat(ref, id)
    \/ \E ref \in Refs : OtherFreeSeat(ref)

SpecShared == Init /\ [][NextShared]_vars

----------------------------------------------------------------------------
(* A run that finds a bookings.db it did not write *)

TableSeatIds == { Str2("1", "A"), Str3("7", "7", "D"), Str3("9", "9", "Z") }

\* Every table over these seats and references that satisfies the two key constraints.
AnyTables ==
    {d \in SUBSET {Record(ref, id) : ref \in Refs, id \in TableSeatIds} :
        \A r1, r2 \in d :
            (r1.booking_ref = r2.booking_ref \/ r1.seat_id = r2.seat_id) => r1 = r2}

InitAny ==
    /\ seats = InitialSeats
    /\ db \in AnyTables
    /\ pc = "load"
    /\ seat_id = NoString
    /\ booking_ref = NoString
    /\ out = Printed("start", NoString, "none", NoString)
    /\ exitSeats = NoExit
    /\ rt = NoRt

SpecAny == InitAny /\ [][Next]_vars

----------------------------------------------------------------------------
(* Vocabulary of the properties, stated without the operators of the model *)

Columns == {"A", "B", "C", "D", "E", "F"}
LayoutKeys == {Str(row) \o <<col>> : row \in 1..80, col \in Columns}
StorageKeys == {Str(row) \o <<col>> : row \in {77, 78}, col \in {"D", "E", "F"}}

Booked(k) == seats[k] # F /\ seats[k] # S
BookedKeys == {k \in DOMAIN seats : Booked(k)}
RecordsOf(k) == {rec \in db : rec.seat_id = k}

\* The ledger the table implies: booked where a row names the seat, else the layout.
ImpliedLedger ==
    [k \in LayoutKeys |->
        IF RecordsOf(k) # {} THEN (CHOOSE rec \in RecordsOf(k) : TRUE).booking_ref
        ELSE IF k \in StorageKeys THEN S ELSE F]

----------------------------------------------------------------------------
(* C1 *)

\* C1: every seat of rows 77-78, columns D-F is Storage in every reachable
\* state, whatever table load_existing_bookings finds, and book_seat and
\* free_seat on such a seat are refused as a storage area.
C1_StoragePermanent ==
    /\ \A k \in StorageKeys : seats[k] = S
    /\ out.op \in {"book", "free"} /\ out.seat \in StorageKeys => out.msg = "storage"

----------------------------------------------------------------------------
(* C2 *)

\* C2: once the table is loaded, a seat is booked with a reference exactly
\* when one row of the table has that seat identifier, that row carries the
\* same reference, and no row names a storage seat.
C2_LedgerMatchesTable ==
    pc # "load" =>
        /\ \A k \in DOMAIN seats :
              /\ Booked(k) <=> Cardinality(RecordsOf(k)) = 1
              /\ Booked(k) => \A rec \in RecordsOf(k) : rec.booking_ref = seats[k]
        /\ \A rec \in db : rec.seat_id \notin StorageKeys

C2_Witness ==
    /\ pc = "menu"
    /\ out.op = "free" /\ out.msg = "freed"
    /\ Cardinality(db) = 1
    /\ Cardinality(BookedKeys) = 1

----------------------------------------------------------------------------
(* C3 *)

\* C3: no two booked seats hold the same reference, and the reference
\* generate_booking_ref returns differs from that of every active booking.
C3_ReferencesUnique ==
    /\ \A k1, k2 \in BookedKeys : seats[k1] = seats[k2] => k1 = k2
    /\ pc = "insert" => \A k \in BookedKeys : seats[k] # booking_ref

C3_Witness ==
    /\ Cardinality(BookedKeys) = 2
    /\ out.op = "book" /\ out.msg = "booked"

----------------------------------------------------------------------------
(* C4 *)

\* C4: loading the table at the start of a run gives back the ledger the
\* previous run ended with, which is the ledger the table implies: booked
\* with the row's reference, Storage in rows 77-78 of D-F, Free elsewhere.
C4_RestartRestores ==
    [][pc = "load" /\ pc' = "menu" =>
          /\ seats' = ImpliedLedger'
          /\ exitSeats.valid => seats' = exitSeats.seats]_vars

C4_Witness ==
    /\ pc = "menu"
    /\ out.op = "load"
    /\ Cardinality(BookedKeys) = 2

----------------------------------------------------------------------------
(* C5 *)

\* C5: book_seat on a booked seat reports the reference the seat holds and
\* changes neither the ledger nor the table.
C5_BookBookedRefused ==
    [][pc = "menu" /\ out'.op = "book" /\ out'.seat \in DOMAIN seats /\ Booked(out'.seat) =>
          /\ out'.msg = "already booked"
          /\ out'.ref = seats[out'.seat]
          /\ pc' = "menu"
          /\ seats' = seats
          /\ db' = db]_vars

C5_Witness ==
    /\ out.op = "book" /\ out.msg = "already booked"
    /\ seats[out.seat] = out.ref
    /\ Cardinality(db) = 2

----------------------------------------------------------------------------
(* C6 *)

\* C6: a booking of a free seat followed at once by freeing that seat leaves
\* the seat Free and the whole ledger and table as they were before the booking.
C6_BookFreeRoundTrip ==
    rt.stage = "freed" =>
        /\ seats[rt.seat] = F
        /\ seats = rt.seats
        /\ db = rt.db

C6_Witness ==
    /\ rt.stage = "freed"
    /\ db # {}

----------------------------------------------------------------------------
(* C7 *)

\* C7: when the INSERT of book_seat meets a row with the same reference or
\* the same seat identifier, the seat ends Free, the table is unchanged, no
\* reference is reported, a conflict is reported and the menu goes on.
C7_ConflictRollsBack ==
    [][/\ pc = "insert"
       /\ out'.op = "book" /\ out'.msg # "pending"
       /\ \E rec \in db : rec.booking_ref = booking_ref \/ rec.seat_id = seat_id
       => /\ seats'[seat_id] = F
          /\ seats' = seats
          /\ db' = db
          /\ out'.msg = "conflict"
          /\ out'.ref = NoString
          /\ pc' = "menu"]_vars

C7_Witness ==
    /\ out.op = "book" /\ out.msg = "conflict"
    /\ seats[out.seat] = F
    /\ pc = "menu"

----------------------------------------------------------------------------
(* C8 *)

\* C8: free_seat on a booked seat deletes exactly the row with the seat's
\* reference and sets that seat Free, all else unchanged; on a free seat, a
\* storage seat or an unknown identifier it changes nothing.
C8_FreeFrame ==
    [][pc = "menu" /\ out'.op = "free" =>
          IF out'.seat \in DOMAIN seats /\ Booked(out'.seat)
          THEN /\ db' = db \ {rec \in db : rec.booking_ref = seats[out'.seat]}
               /\ Cardinality(db \ db') = 1
               /\ seats' = [seats EXCEPT ![out'.seat] = F]
          ELSE /\ seats' = seats
               /\ db' = db]_vars

C8_Witness ==
    /\ out.op = "free" /\ out.msg = "freed"
    /\ seats[out.seat] = F
    /\ Cardinality(db) = 1

----------------------------------------------------------------------------
(* C9 *)

\* C9: the keys of the ledger are always the 480 identifiers of rows 1-80
\* and columns A-F; before the table is loaded every seat is Free except
\* rows 77-78 of D-F, which are Storage; an identifier outside the keys is
\* reported invalid.
C9_LayoutFixed ==
    /\ DOMAIN seats = LayoutKeys
    /\ Cardinality(DOMAIN seats) = 480
    /\ pc = "load" => \A k \in LayoutKeys : seats[k] = IF k \in StorageKeys THEN S ELSE F
    /\ out.op \in {"check", "book", "free"} /\ out.seat \notin LayoutKeys => out.msg = "invalid"

C9_Witness ==
    /\ out.op = "check" /\ out.seat = Str3("9", "9", "Z") /\ out.msg = "invalid"
    /\ db # {}

----------------------------------------------------------------------------
(* C10 *)

UnusedRefs == {ref \in Refs : \A rec \in db : rec.booking_ref # ref}

\* C10: generate_booking_ref never returns a reference that is a key of the
\* table, and while some reference is unused its loop ends.
C10_GenerationTerminates ==
    /\ [](pc = "insert" => \A rec \in db : rec.booking_ref # booking_ref)
    /\ (pc = "gen" /\ UnusedRefs # {}) ~> (pc = "insert")

\* the loop has rejected a reference of the table and an unused one remains
C10_Witness ==
    /\ pc = "gen"
    /\ booking_ref \in Refs \ UnusedRefs
    /\ UnusedRefs # {}

\* The loop with no unused reference left does not end: the premise is needed.
C10_Unconditional == (pc = "gen") ~> (pc = "insert")

====
